---- MODULE Spec2Model ----
(***************************************************************************)
(* Model of Game.py: the TicTacToe board, the two searches                 *)
(* smart_move_finder (minimax) and optimized_move_finder (alpha-beta),     *)
(* and the run_game turn loop.                                             *)
(***************************************************************************)
EXTENDS Integers, Sequences, FiniteSets, TLC

\* ------------------------------------------------------------------------
\* Values of the program
\* ------------------------------------------------------------------------
Empty == " "
Marks == {"X", "O"}
None == "None"
Positions == 0..8

\* float('inf') (best['value'] before the first candidate, the default alpha
\* and beta): an integer above every score, which are at most 9 in size
Inf == 1000

\* the move None of a search result that names no position
NoMove == -1

\* TicTacToe.__init__
NewGrid == [i \in Positions |-> Empty]
NewGame == [grid |-> NewGrid, victor |-> None]

\* free_spaces that lists the Empty positions in descending order
free_spaces_descending(grid) ==
    SelectSeq(<<8, 7, 6, 5, 4, 3, 2, 1, 0>>, LAMBDA i : grid[i] = Empty)

\* TicTacToe.free_spaces: the Empty positions in ascending order
free_spaces(grid) == SelectSeq(<<0, 1, 2, 3, 4, 5, 6, 7, 8>>, LAMBDA i : grid[i] = Empty)

\* TicTacToe.has_space: ' ' in self.grid
has_space(grid) == Empty \in {grid[i] : i \in Positions}

\* a count of the marks in place of the Empty cells
count_taken(grid) == Cardinality({i \in Positions : grid[i] # Empty})

\* TicTacToe.count_free
count_free(grid) == Cardinality({i \in Positions : grid[i] = Empty})

\* check_win without the column check
check_win_no_column(grid, pos, symbol) ==
    LET row == pos \div 3
    IN  \/ \A c \in 0..2 : grid[row * 3 + c] = symbol
        \/ /\ pos % 2 = 0
           /\ \/ \A i \in {0, 4, 8} : grid[i] = symbol
              \/ \A i \in {2, 4, 6} : grid[i] = symbol

\* TicTacToe.check_win: row and column of pos, diagonals only for even pos
check_win(grid, pos, symbol) ==
    LET row == pos \div 3
        col == pos % 3
    IN  \/ \A c \in 0..2 : grid[row * 3 + c] = symbol
        \/ \A r \in 0..2 : grid[col + r * 3] = symbol
        \/ /\ pos % 2 = 0
           /\ \/ \A i \in {0, 4, 8} : grid[i] = symbol
              \/ \A i \in {2, 4, 6} : grid[i] = symbol

\* place_marker without the test of the cell
place_marker_overwrite(game, pos, symbol) ==
    LET g == [game.grid EXCEPT ![pos] = symbol]
    IN  [game |-> [grid |-> g,
                   victor |-> IF check_win(g, pos, symbol) THEN symbol ELSE game.victor],
         ok |-> TRUE]

\* TicTacToe.place_marker: the game after the call and the value returned
place_marker(game, pos, symbol) ==
    IF game.grid[pos] = Empty
    THEN LET g == [game.grid EXCEPT ![pos] = symbol]
         IN  [game |-> [grid |-> g,
                        victor |-> IF check_win(g, pos, symbol) THEN symbol ELSE game.victor],
              ok |-> TRUE]
    ELSE [game |-> game, ok |-> FALSE]

\* a revert that empties the cell and leaves victor as the trial set it
revert_keeps_victor(game, move) ==
    [grid |-> [game.grid EXCEPT ![move] = Empty], victor |-> game.victor]

\* the revert of a trial move in the searches: grid[move] = ' ', victor = None
revert(game, move) == [grid |-> [game.grid EXCEPT ![move] = Empty], victor |-> None]

Other(player) == IF player = "X" THEN "O" ELSE "X"

\* a dict is the set of its <<key, value>> items, one per key; {} has none
EmptyDict == {}
HasKey(memory, key) == key \in {item[1] : item \in memory}
Get(memory, key) == (CHOOSE item \in memory : item[1] = key)[2]
Store(memory, key, val) == {item \in memory : item[1] # key} \cup {<<key, val>>}

\* memory=None, the default: falsy like the empty dict, and "memory or {}"
\* replaces either by a new dict, so the model passes the empty dict for it
NoMemory == EmptyDict

\* "memory = memory or {}": the callee works on a dict of its own unless the
\* one passed has an entry
Truthy(memory) == memory # EmptyDict
LocalMemory(memory) == IF Truthy(memory) THEN memory ELSE EmptyDict
\* what the caller's dict holds after the call: the callee's writes, if shared
CallerMemory(memory, after) == IF Truthy(memory) THEN after ELSE memory

\* the board is finished for the search: a victor, or no space
IsTerminal(game) == game.victor \in Marks \/ ~has_space(game.grid)

\* the values the searches are applied to
Cells == {Empty} \cup Marks
Games == [grid : [Positions -> Cells], victor : Marks \cup {None}]
Values == (-Inf)..Inf
Outcomes == [move : Positions \cup {NoMove}, value : Values]
Dicts == SUBSET ([Positions -> Cells] \X Outcomes)
SmartStates == [game : Games, memory : Dicts, best : Outcomes, i : 1..10]
OptimizedStates == [game : Games, memory : Dicts, best : Outcomes, i : 1..10,
                    alpha : Values, beta : Values, broke : BOOLEAN]
SmartArgs == [game_state : Games, is_maximizing : BOOLEAN, player : Marks,
              memory : Dicts]
OptimizedArgs == [game_state : Games, is_maximizing : BOOLEAN, player : Marks,
                  alpha : Values, beta : Values, memory : Dicts]

\* ------------------------------------------------------------------------
\* smart_move_finder
\* ------------------------------------------------------------------------

\* a scoring of finished boards that does not count the Empty cells
smart_terminal_flat(game, player) ==
    IF game.victor = player
    THEN [move |-> NoMove, value |-> 1]
    ELSE IF game.victor = Other(player)
    THEN [move |-> NoMove, value |-> -1]
    ELSE [move |-> NoMove, value |-> 0]

\* the game outcome scenarios of smart_move_finder
smart_terminal(game, player) ==
    IF game.victor = player
    THEN [move |-> NoMove, value |-> 1 * (count_free(game.grid) + 1)]
    ELSE IF game.victor = Other(player)
    THEN [move |-> NoMove, value |-> (-1) * (count_free(game.grid) + 1)]
    ELSE [move |-> NoMove, value |-> 0]

\* a comparison that takes the greater value on the opponent's turns too
smart_better_greater(is_maximizing, outcome, best) == outcome.value > best.value

\* "if outcome['value'] > best['value']" resp. "<" of smart_move_finder
smart_better(is_maximizing, outcome, best) ==
    IF is_maximizing THEN outcome.value > best.value ELSE outcome.value < best.value

\* one iteration of the for loop of smart_move_finder: st holds the board,
\* the dict, best and the index i of the next candidate in moves; finder is
\* smart_move_finder, for the recursive call
smart_step(finder, st, is_maximizing, player, moves) ==
    LET move == moves[st.i]
        placed == place_marker(st.game, move,
                               IF is_maximizing THEN player ELSE Other(player)).game
        call == finder[[game_state |-> placed, is_maximizing |-> ~is_maximizing,
                        player |-> player, memory |-> st.memory]]
        outcome == [call.outcome EXCEPT !.move = move]
    IN  [game |-> revert(call.game, move),
         memory |-> call.memory,
         best |-> IF smart_better(is_maximizing, outcome, st.best) THEN outcome ELSE st.best,
         i |-> st.i + 1]

\* returns the outcome, the board as the call leaves it and the caller's dict
smart_move_finder[a \in SmartArgs] ==
    LET memory == LocalMemory(a.memory)
        state_key == a.game_state.grid
    IN  IF HasKey(memory, state_key)
        THEN [outcome |-> Get(memory, state_key), game |-> a.game_state,
              memory |-> a.memory]
        ELSE IF IsTerminal(a.game_state)
        THEN [outcome |-> smart_terminal(a.game_state, a.player),
              game |-> a.game_state, memory |-> a.memory]
        ELSE LET moves == free_spaces(a.game_state.grid)
                 Step(st) == smart_step(smart_move_finder, st, a.is_maximizing,
                                        a.player, moves)
                 Done(st) == st.i > Len(moves)
                 s0 == [game |-> a.game_state, memory |-> memory,
                        best |-> [move |-> NoMove,
                                  value |-> IF a.is_maximizing THEN -Inf ELSE Inf],
                        i |-> 1]
                 \* one pass of the loop: nothing once it has ended
                 step[st \in SmartStates] == IF Done(st) THEN st ELSE Step(st)
                 \* the loop runs once per free position, at most 9 times
                 loop == step[step[step[step[step[step[step[step[step[s0]]]]]]]]]
             IN  [outcome |-> loop.best, game |-> loop.game,
                  memory |-> CallerMemory(a.memory,
                                          Store(loop.memory, state_key, loop.best))]

\* ------------------------------------------------------------------------
\* optimized_move_finder
\* ------------------------------------------------------------------------

\* a scoring of finished boards that counts a win of the opponent above 0
optimized_terminal_unsigned(game, player) ==
    IF game.victor = player
    THEN [move |-> NoMove, value |-> 1 * (count_free(game.grid) + 1)]
    ELSE IF game.victor = Other(player)
    THEN [move |-> NoMove, value |-> 1 * (count_free(game.grid) + 1)]
    ELSE [move |-> NoMove, value |-> 0]

\* the terminal state evaluation of optimized_move_finder
optimized_terminal(game, player) ==
    IF game.victor = player
    THEN [move |-> NoMove, value |-> 1 * (count_free(game.grid) + 1)]
    ELSE IF game.victor = Other(player)
    THEN [move |-> NoMove, value |-> (-1) * (count_free(game.grid) + 1)]
    ELSE [move |-> NoMove, value |-> 0]

\* the two comparisons exchanged
optimized_better_exchanged(is_maximizing, outcome, best) ==
    IF is_maximizing THEN outcome.value < best.value ELSE outcome.value > best.value

\* "if outcome['value'] > best['value']" resp. "<" of optimized_move_finder
optimized_better(is_maximizing, outcome, best) ==
    IF is_maximizing THEN outcome.value > best.value ELSE outcome.value < best.value

max(x, y) == IF x >= y THEN x ELSE y
min(x, y) == IF x <= y THEN x ELSE y

\* the break test with its operands exchanged
prune_exchanged(alpha, beta) == alpha <= beta

\* "if beta <= alpha: break"
prune(alpha, beta) == beta <= alpha

\* one iteration of the for loop of optimized_move_finder; st also holds
\* alpha, beta and whether the loop has hit its break
optimized_step(finder, st, is_maximizing, player, moves) ==
    LET move == moves[st.i]
        placed == place_marker(st.game, move,
                               IF is_maximizing THEN player ELSE Other(player)).game
        call == finder[[game_state |-> placed, is_maximizing |-> ~is_maximizing,
                        player |-> player, alpha |-> st.alpha, beta |-> st.beta,
                        memory |-> st.memory]]
        outcome == [call.outcome EXCEPT !.move = move]
        best == IF optimized_better(is_maximizing, outcome, st.best)
                THEN outcome ELSE st.best
        alpha == IF is_maximizing THEN max(st.alpha, best.value) ELSE st.alpha
        beta == IF is_maximizing THEN st.beta ELSE min(st.beta, best.value)
    IN  [game |-> revert(call.game, move),
         memory |-> call.memory,
         best |-> best,
         alpha |-> alpha,
         beta |-> beta,
         broke |-> prune(alpha, beta),
         i |-> st.i + 1]

optimized_move_finder[a \in OptimizedArgs] ==
    LET memory == LocalMemory(a.memory)
        state_key == a.game_state.grid
    IN  IF HasKey(memory, state_key)
        THEN [outcome |-> Get(memory, state_key), game |-> a.game_state,
              memory |-> a.memory]
        ELSE IF IsTerminal(a.game_state)
        THEN [outcome |-> optimized_terminal(a.game_state, a.player),
              game |-> a.game_state, memory |-> a.memory]
        ELSE LET moves == free_spaces(a.game_state.grid)
                 Step(st) == optimized_step(optimized_move_finder, st,
                                            a.is_maximizing, a.player, moves)
                 Done(st) == st.broke \/ st.i > Len(moves)
                 s0 == [game |-> a.game_state, memory |-> memory,
                        best |-> [move |-> NoMove,
                                  value |-> IF a.is_maximizing THEN -Inf ELSE Inf],
                        alpha |-> a.alpha, beta |-> a.beta, broke |-> FALSE,
                        i |-> 1]
                 step[st \in OptimizedStates] == IF Done(st) THEN st ELSE Step(st)
                 loop == step[step[step[step[step[step[step[step[step[s0]]]]]]]]]
             IN  [outcome |-> loop.best, game |-> loop.game,
                  memory |-> CallerMemory(a.memory,
                                          Store(loop.memory, state_key, loop.best))]

\* ------------------------------------------------------------------------
\* State
\* ------------------------------------------------------------------------
VARIABLES
    game,            \* the TicTacToe object: grid and victor
    last,            \* the latest call on the board and whether it succeeded
    smart_ret,       \* what smart_move_finder returned for the present board
    optimized_ret,   \* what optimized_move_finder returned for the present board
    pc,              \* where run_game stands
    current_player,  \* run_game's current_player
    x_strategy,      \* run_game's x_strategy
    o_strategy,      \* run_game's o_strategy
    result,          \* what run_game returned
    stack,           \* the frames of the search that is running, the root call first
    objs,            \* the result dicts the running search has created, by identity
    dicts,           \* the cache dicts the running search holds, by identity
    trace            \* the running search: its call, and what it has done so far

vars == <<game, last, smart_ret, optimized_ret, pc, current_player,
          x_strategy, o_strategy, result, stack, objs, dicts, trace>>

trace_vars == <<stack, objs, dicts, trace>>

run_vars == <<pc, current_player, x_strategy, o_strategy, result>>

NoCall == [called |-> FALSE, player |-> None, is_maximizing |-> FALSE,
           move |-> NoMove, value |-> 0]
Returned(player, is_maximizing, outcome) ==
    [called |-> TRUE, player |-> player, is_maximizing |-> is_maximizing,
     move |-> outcome.move, value |-> outcome.value]

NoLast == [op |-> "none", ok |-> FALSE]
Called(op, ok) == [op |-> op, ok |-> ok]

\* no search is being followed step by step
NoTrace == [status |-> "idle", finder |-> None, player |-> None, seeded |-> FALSE,
            root |-> NewGrid, written |-> {}, twice |-> FALSE, hit |-> FALSE,
            deepest |-> 0, plain |-> [move |-> NoMove, value |-> 0]]
TraceOff ==
    /\ stack = <<>>
    /\ objs = <<>>
    /\ dicts = <<>>
    /\ trace = NoTrace

\* ------------------------------------------------------------------------
\* Calls on the board
\* ------------------------------------------------------------------------

\* place_marker(pos, symbol) on the board as it stands in board
placing(board, pos, symbol) ==
    \E r \in {place_marker(board, pos, symbol)} :
        /\ game' = r.game
        /\ last' = Called("place_marker", r.ok)
        /\ smart_ret' = NoCall
        /\ optimized_ret' = NoCall
        /\ UNCHANGED trace_vars

\* game.place_marker(pos, symbol)
do_place_marker(pos, symbol) == placing(game, pos, symbol)

\* smart_move_finder(game, is_maximizing, player), no cache passed
call_smart_move_finder(is_maximizing, player) ==
    smart_move_finder[[game_state |-> game, is_maximizing |-> is_maximizing,
                       player |-> player, memory |-> NoMemory]]

do_smart_move_finder(is_maximizing, player) ==
    \E call \in {call_smart_move_finder(is_maximizing, player)} :
        /\ game' = call.game
        /\ smart_ret' = Returned(player, is_maximizing, call.outcome)
        /\ last' = Called("smart_move_finder", TRUE)
        /\ UNCHANGED optimized_ret
        /\ UNCHANGED trace_vars

\* optimized_move_finder(game, is_maximizing, player), default alpha and beta,
\* no cache passed
call_optimized_move_finder(is_maximizing, player) ==
    optimized_move_finder[[game_state |-> game, is_maximizing |-> is_maximizing,
                           player |-> player, alpha |-> -Inf, beta |-> Inf,
                           memory |-> NoMemory]]

do_optimized_move_finder(is_maximizing, player) ==
    \E call \in {call_optimized_move_finder(is_maximizing, player)} :
        /\ game' = call.game
        /\ optimized_ret' = Returned(player, is_maximizing, call.outcome)
        /\ last' = Called("optimized_move_finder", TRUE)
        /\ UNCHANGED smart_ret
        /\ UNCHANGED trace_vars

\* a trial move whose revert leaves victor as the placement set it
do_trial_keeps_victor(pos, symbol) ==
    /\ game' = revert_keeps_victor(place_marker(game, pos, symbol).game, pos)
    /\ last' = Called("trial", TRUE)
    /\ smart_ret' = NoCall
    /\ optimized_ret' = NoCall
    /\ UNCHANGED trace_vars

\* a trial move of the searches and its revert, with nothing in between:
\* place_marker(move, symbol); grid[move] = ' '; victor = None
do_trial(pos, symbol) ==
    /\ game' = revert(place_marker(game, pos, symbol).game, pos)
    /\ last' = Called("trial", TRUE)
    /\ smart_ret' = NoCall
    /\ optimized_ret' = NoCall
    /\ UNCHANGED trace_vars

\* ------------------------------------------------------------------------
\* run_game
\* ------------------------------------------------------------------------
Strategies == {"human_strategy", "minimax_strategy", "alphabeta_strategy"}

\* "if current_player == 'O': o_strategy(...) else: x_strategy(...)"
Strategy == IF current_player = "O" THEN o_strategy ELSE x_strategy

Init ==
    /\ game = NewGame
    /\ last = NoLast
    /\ smart_ret = NoCall
    /\ optimized_ret = NoCall
    /\ pc = "loop"
    /\ current_player = "X"
    /\ x_strategy \in Strategies
    /\ o_strategy \in Strategies
    /\ result = None
    /\ TraceOff

\* a loop body that does not look at victor and plays on after a win
run_game_place_plays_on(board, pos) ==
    IF pos = NoMove
    THEN /\ pc' = "raised"
         /\ game' = board
         /\ UNCHANGED <<last, smart_ret, optimized_ret, current_player, result>>
         /\ UNCHANGED trace_vars
    ELSE /\ placing(board, pos, current_player)
         /\ current_player' = IF last'.ok THEN Other(current_player)
                                           ELSE current_player
         /\ pc' = "loop"
         /\ UNCHANGED result

\* the loop body after the strategy has returned position, the board being
\* as the strategy left it: "if game.place_marker(position, current_player):
\* ... if game.victor: return current_player ... current_player = ...";
\* indexing the grid with the position None raises TypeError
run_game_place(board, pos) ==
    IF pos = NoMove
    THEN /\ pc' = "raised"
         /\ game' = board
         /\ UNCHANGED <<last, smart_ret, optimized_ret, current_player, result>>
         /\ UNCHANGED trace_vars
    ELSE /\ placing(board, pos, current_player)
         /\ IF last'.ok /\ game'.victor # None
            THEN /\ result' = current_player
                 /\ pc' = "done"
                 /\ UNCHANGED current_player
            ELSE /\ current_player' = IF last'.ok THEN Other(current_player)
                                                  ELSE current_player
                 /\ pc' = "loop"
                 /\ UNCHANGED result

\* one pass of the loop with human_strategy, which returns a free position
human_turn(move) ==
    /\ pc = "loop"
    /\ has_space(game.grid)
    /\ Strategy = "human_strategy"
    /\ move \in {free_spaces(game.grid)[k] : k \in 1..Len(free_spaces(game.grid))}
    /\ run_game_place(game, move)
    /\ UNCHANGED <<x_strategy, o_strategy>>

\* one pass of the loop with minimax_strategy:
\* smart_move_finder(game, True, symbol)['move']
minimax_turn ==
    /\ pc = "loop"
    /\ has_space(game.grid)
    /\ Strategy = "minimax_strategy"
    /\ \E call \in {call_smart_move_finder(TRUE, current_player)} :
           run_game_place(call.game, call.outcome.move)
    /\ UNCHANGED <<x_strategy, o_strategy>>

\* one pass of the loop with alphabeta_strategy:
\* optimized_move_finder(game, True, symbol)['move']
alphabeta_turn ==
    /\ pc = "loop"
    /\ has_space(game.grid)
    /\ Strategy = "alphabeta_strategy"
    /\ \E call \in {call_optimized_move_finder(TRUE, current_player)} :
           run_game_place(call.game, call.outcome.move)
    /\ UNCHANGED <<x_strategy, o_strategy>>

\* "while game.has_space()" fails: return None
run_game_tied ==
    /\ pc = "loop"
    /\ ~has_space(game.grid)
    /\ result' = None
    /\ pc' = "done"
    /\ UNCHANGED <<game, last, smart_ret, optimized_ret, current_player,
                   x_strategy, o_strategy>>
    /\ UNCHANGED trace_vars

Next ==
    \/ \E move \in Positions : human_turn(move)
    \/ minimax_turn
    \/ alphabeta_turn
    \/ run_game_tied

Spec == Init /\ [][Next]_vars

\* ------------------------------------------------------------------------
\* Top-level searches on the boards of legal play
\* ------------------------------------------------------------------------
InitSearch ==
    /\ game = NewGame
    /\ last = NoLast
    /\ smart_ret = NoCall
    /\ optimized_ret = NoCall
    /\ pc = "off"
    /\ current_player = "X"
    /\ x_strategy = None
    /\ o_strategy = None
    /\ result = None
    /\ TraceOff

\* legal alternating play, X first, stopping at the first win
Play(pos) ==
    /\ game.victor = None
    /\ game.grid[pos] = Empty
    /\ do_place_marker(pos, current_player)
    /\ current_player' = Other(current_player)
    /\ UNCHANGED <<pc, x_strategy, o_strategy, result>>

\* the call the strategies make: is_maximizing = True, player the side to
\* move; on a finished board for either player
SearchSmart(player) ==
    /\ ~smart_ret.called
    /\ IsTerminal(game) \/ player = current_player
    /\ do_smart_move_finder(TRUE, player)
    /\ UNCHANGED run_vars

SearchOptimized(player) ==
    /\ ~optimized_ret.called
    /\ IsTerminal(game) \/ player = current_player
    /\ do_optimized_move_finder(TRUE, player)
    /\ UNCHANGED run_vars

NextSearch ==
    \/ \E pos \in Positions : Play(pos)
    \/ \E player \in Marks : SearchSmart(player)
    \/ \E player \in Marks : SearchOptimized(player)

SpecSearch == InitSearch /\ [][NextSearch]_vars

\* ------------------------------------------------------------------------
\* The board under any calls
\* ------------------------------------------------------------------------

\* place_marker with any position and symbol, free cell or not
BoardPlace(pos, symbol) ==
    /\ do_place_marker(pos, symbol)
    /\ UNCHANGED run_vars

\* a trial move and its revert on a free cell
BoardTrial(pos, symbol) ==
    /\ game.grid[pos] = Empty
    /\ do_trial(pos, symbol)
    /\ UNCHANGED run_vars

\* a search on a finished board
BoardSmart(is_maximizing, player) ==
    /\ IsTerminal(game)
    /\ ~smart_ret.called
    /\ do_smart_move_finder(is_maximizing, player)
    /\ UNCHANGED run_vars

\* the call smart_move_finder has answered, put to optimized_move_finder
BoardOptimized ==
    /\ IsTerminal(game)
    /\ smart_ret.called
    /\ ~optimized_ret.called
    /\ do_optimized_move_finder(smart_ret.is_maximizing, smart_ret.player)
    /\ UNCHANGED run_vars

NextBoard ==
    \/ \E pos \in Positions, symbol \in Marks : BoardPlace(pos, symbol)
    \/ \E pos \in Positions, symbol \in Marks : BoardTrial(pos, symbol)
    \/ \E is_maximizing \in BOOLEAN, player \in Marks : BoardSmart(is_maximizing, player)
    \/ BoardOptimized

SpecBoard == InitSearch /\ [][NextBoard]_vars

\* ------------------------------------------------------------------------
\* Properties
\* ------------------------------------------------------------------------
SearchOps == {"smart_move_finder", "optimized_move_finder"}

\* the board [X, X, _, O, O, _, _, _, _]
BoardXXOO == [i \in Positions |-> IF i \in {0, 1} THEN "X"
                                  ELSE IF i \in {3, 4} THEN "O" ELSE Empty]

\* C1: on every board of legal play, smart_move_finder and
\* optimized_move_finder called with is_maximizing = True for the same player
\* (the side to move), default alpha and beta and no cache return the same
\* move and the same value.
C1_SameMoveAndValue ==
    (smart_ret.called /\ optimized_ret.called
        /\ smart_ret.player = optimized_ret.player)
    => /\ smart_ret.move = optimized_ret.move
       /\ smart_ret.value = optimized_ret.value

\* both searches have answered for a board in mid-game with a move to choose
C1_Witness ==
    /\ smart_ret.called
    /\ optimized_ret.called
    /\ ~IsTerminal(game)
    /\ count_free(game.grid) = 6
    /\ smart_ret.player = "O"
    /\ smart_ret.move # NoMove

\* C4: on the empty board both searches, called for the first player 'X',
\* return the value 0.
C4_EmptyBoardValueZero ==
    game.grid = NewGrid
    => /\ (smart_ret.called /\ smart_ret.player = "X") => smart_ret.value = 0
       /\ (optimized_ret.called /\ optimized_ret.player = "X") => optimized_ret.value = 0

C4_Witness ==
    /\ game.grid = NewGrid
    /\ smart_ret.called /\ smart_ret.player = "X" /\ smart_ret.is_maximizing
    /\ optimized_ret.called /\ optimized_ret.player = "X" /\ optimized_ret.is_maximizing

\* C5: a top-level call of either search leaves the board as it found it:
\* the 9 cells and victor after the call equal those before it, on finished
\* boards and unfinished ones.
C5_BoardAsFound == [][last'.op \in SearchOps => game' = game]_vars

\* a search has returned on a board in mid-game, where it tried moves
C5_Witness ==
    /\ last.op \in SearchOps
    /\ ~IsTerminal(game)
    /\ count_free(game.grid) = 5

\* C10, as claimed: on the board [X, X, _, O, O, _, _, _, _] a search for X
\* with is_maximizing = True returns move 2 with value 7.
C10_Value7 ==
    game.grid = BoardXXOO
    => /\ (smart_ret.called /\ smart_ret.player = "X")
            => (smart_ret.move = 2 /\ smart_ret.value = 7)
       /\ (optimized_ret.called /\ optimized_ret.player = "X")
            => (optimized_ret.move = 2 /\ optimized_ret.value = 7)

\* C10, amended: on that board a search for X with is_maximizing = True
\* returns move 2 with value 5, the 4 cells left free by the win plus 1.
C10_Value5 ==
    game.grid = BoardXXOO
    => /\ (smart_ret.called /\ smart_ret.player = "X")
            => (smart_ret.move = 2 /\ smart_ret.value = 5)
       /\ (optimized_ret.called /\ optimized_ret.player = "X")
            => (optimized_ret.move = 2 /\ optimized_ret.value = 5)

C10_Witness ==
    /\ game.grid = BoardXXOO
    /\ game.victor = None
    /\ smart_ret.called /\ smart_ret.player = "X"
    /\ optimized_ret.called /\ optimized_ret.player = "X"

\* ------------------------------------------------------------------------
\* The game value, defined on the rules alone
\* ------------------------------------------------------------------------
Lines == {{0, 1, 2}, {3, 4, 5}, {6, 7, 8}, {0, 3, 6}, {1, 4, 7}, {2, 5, 8},
          {0, 4, 8}, {2, 4, 6}}
HasLine(grid, symbol) == \E line \in Lines : \A i \in line : grid[i] = symbol
FreeSet(grid) == {i \in Positions : grid[i] = Empty}

Scores == -10..10
Greatest[S \in SUBSET Scores] == CHOOSE x \in S : \A y \in S : y <= x
Least[S \in SUBSET Scores] == CHOOSE x \in S : \A y \in S : x <= y

\* the minimax value for player of the board grid with mover to move: a win
\* counts the free cells left plus 1, for player above 0 and for the
\* opponent below, a full board 0
GameValue[grid \in [Positions -> Cells], mover \in Marks, player \in Marks] ==
    IF HasLine(grid, player) THEN Cardinality(FreeSet(grid)) + 1
    ELSE IF HasLine(grid, Other(player)) THEN 0 - (Cardinality(FreeSet(grid)) + 1)
    ELSE IF FreeSet(grid) = {} THEN 0
    ELSE IF mover = player
    THEN Greatest[{GameValue[[grid EXCEPT ![p] = mover], Other(mover), player]
                      : p \in FreeSet(grid)}]
    ELSE Least[{GameValue[[grid EXCEPT ![p] = mover], Other(mover), player]
                   : p \in FreeSet(grid)}]

\* the value for player of each move player can make on grid
MoveValues(grid, player) ==
    [p \in FreeSet(grid) |-> GameValue[[grid EXCEPT ![p] = player], Other(player), player]]

\* the lowest position among those of the greatest value
LowestOptimal(value) ==
    CHOOSE p \in DOMAIN value :
        /\ value[p] = Greatest[{value[q] : q \in DOMAIN value}]
        /\ \A q \in DOMAIN value :
               value[q] = Greatest[{value[r] : r \in DOMAIN value}] => p <= q

\* C8: on an unfinished board the move either search returns is the
\* lowest-index free position among those whose minimax value is the optimum.
C8_LowestIndexOptimum ==
    \A ret \in {smart_ret, optimized_ret} :
        (ret.called /\ ~IsTerminal(game))
        => \A value \in {MoveValues(game.grid, ret.player)} :
               ret.move = LowestOptimal(value)

\* a search has answered on the empty board, where all 9 moves tie at 0
C8_Witness ==
    /\ game.grid = NewGrid
    /\ optimized_ret.called
    /\ optimized_ret.move = 0
    /\ \A p \in Positions : MoveValues(NewGrid, "X")[p] = 0

AIStrategies == {"minimax_strategy", "alphabeta_strategy"}

\* C2: in run_game a side played by minimax_strategy or alphabeta_strategy
\* never loses: the other mark never becomes victor and is never returned,
\* whoever plays the other side and whatever moves they choose.
C2_SearchNeverLoses ==
    /\ x_strategy \in AIStrategies => (game.victor # "O" /\ result # "O")
    /\ o_strategy \in AIStrategies => (game.victor # "X" /\ result # "X")

\* a game of a human X against a search O has ended, won by the search
C2_Witness ==
    /\ pc = "done"
    /\ x_strategy = "human_strategy"
    /\ o_strategy \in AIStrategies
    /\ result = "O"
    /\ game.victor = "O"

BothAI == x_strategy \in AIStrategies /\ o_strategy \in AIStrategies

\* the marks on the board
Placed == 9 - count_free(game.grid)

\* C3: run_game with a search strategy on both sides, from the empty board,
\* always ends in a draw: every turn places a mark, no turn raises and no
\* turn wins, so after 9 turns the board is full with victor None, and
\* run_game returns None.
C3_AlwaysDraw ==
    BothAI
    => /\ pc # "raised"
       /\ game.victor = None
       /\ last.op = "place_marker" => last.ok
       /\ pc = "done" => (result = None /\ ~has_space(game.grid))
       /\ (pc = "loop" /\ ~has_space(game.grid)) => ENABLED run_game_tied

\* minimax against alpha-beta has ended on the full board
C3_Witness ==
    /\ pc = "done"
    /\ x_strategy = "minimax_strategy"
    /\ o_strategy = "alphabeta_strategy"
    /\ result = None
    /\ game.victor = None
    /\ Placed = 9

\* C6: place_marker on an occupied cell returns False and changes neither
\* grid nor victor; on an Empty cell it returns True.
C6_OccupiedRejected ==
    [][last'.op = "place_marker"
       => \A pos \in Positions, symbol \in Marks :
              BoardPlace(pos, symbol)
              => IF game.grid[pos] # Empty
                 THEN ~last'.ok /\ game' = game
                 ELSE last'.ok /\ game'.grid[pos] = symbol]_vars

\* a call has been rejected on a board with a victor
C6_Witness ==
    /\ last.op = "place_marker"
    /\ ~last.ok
    /\ game.victor = "X"

\* C7, as claimed: for every board, Empty position p and mark m,
\* place_marker(p, m) followed by the undo (cell to Empty, victor to None)
\* gives back the board as it was, victor included.
C7_RoundTripEveryBoard == [][last'.op = "trial" => game' = game]_vars

\* C7, amended: it gives the board back when victor was None before the
\* placement; the grid comes back in every case.
C7_RoundTripNoVictor ==
    [][last'.op = "trial"
       => /\ game'.grid = game.grid
          /\ game.victor = None => game' = game]_vars

\* a trial has been made and undone on a board with two marks in a row
C7_Witness ==
    /\ last.op = "trial"
    /\ game.victor = None
    /\ game.grid[0] = "X" /\ game.grid[1] = "X" /\ game.grid[2] = Empty

\* C9: on a finished board with k Empty cells a search returns the move None
\* and the value k + 1 when victor is the player, -(k + 1) when victor is the
\* opponent, and 0 when victor is None (and k = 0).
C9_TerminalScore ==
    \A ret \in {smart_ret, optimized_ret} :
        (ret.called /\ IsTerminal(game))
        => /\ ret.move = NoMove
           /\ game.victor = ret.player => ret.value = count_free(game.grid) + 1
           /\ game.victor = Other(ret.player)
                  => ret.value = 0 - (count_free(game.grid) + 1)
           /\ game.victor = None
                  => (count_free(game.grid) = 0 /\ ret.value = 0)

\* the opponent has won with 5 cells Empty: the value is -6
C9_Witness ==
    /\ game.victor = "X"
    /\ count_free(game.grid) = 5
    /\ smart_ret.called /\ smart_ret.player = "O" /\ smart_ret.value = -6
    /\ optimized_ret.called /\ optimized_ret.player = "O" /\ optimized_ret.value = -6

\* the board on which X holds positions 1 and 7 and nothing else is placed
BoardX17 == [i \in Positions |-> IF i \in {1, 7} THEN "X" ELSE Empty]

\* C11, as claimed: on the board where X holds only 1 and 7,
\* place_marker(4, 'X') leaves victor None.
C11_NoVictorAt4 ==
    [][(game.grid = BoardX17 /\ game.victor = None /\ BoardPlace(4, "X"))
       => game'.victor = None]_vars

\* C11, amended: on that board place_marker(4, 'X') returns True and sets
\* victor to 'X', since 1, 4, 7 is the middle column.
C11_ColumnWinAt4 ==
    [][(game.grid = BoardX17 /\ game.victor = None /\ BoardPlace(4, "X"))
       => (last'.ok /\ game'.victor = "X"
           /\ game'.grid = [BoardX17 EXCEPT ![4] = "X"])]_vars

\* X has been placed on 4 after 1 and 7
C11_Witness ==
    /\ game.grid = [BoardX17 EXCEPT ![4] = "X"]
    /\ game.victor = "X"
    /\ last = Called("place_marker", TRUE)

\* C13, as claimed: once victor is set, no later place_marker call changes it.
C13_VictorSetOnce ==
    [][(last'.op = "place_marker" /\ game.victor # None)
       => game'.victor = game.victor]_vars

\* ------------------------------------------------------------------------
\* A search followed call by call
\* ------------------------------------------------------------------------
\* Python's dicts are objects: a result dict returned by a call, kept as best,
\* stored in a cache and given a 'move' by the caller is one object under
\* several names. objs and dicts hold the objects, and the frames, the cache
\* entries and the return values refer to them by their index.

\* the searches are followed on the boards with at most this many Empty cells
MaxTraceFree == 4

\* memory=None in the index of dicts
NoDict == 0

\* "memory = memory or {}": the index of the dict the call works on, and the
\* dicts once it has made its choice
WorksOn(D, memory) ==
    IF memory # NoDict /\ Truthy(D[memory]) THEN memory ELSE Len(D) + 1
OnEntry(D, memory) ==
    IF memory # NoDict /\ Truthy(D[memory]) THEN D ELSE Append(D, EmptyDict)

NoFrame == [is_maximizing |-> FALSE, memory |-> NoDict, state_key |-> NewGrid,
            moves |-> <<>>, i |-> 1, best |-> 0, alpha |-> -Inf, beta |-> Inf,
            broke |-> FALSE, pc |-> "none", outcome |-> 0]

\* a call whose loop goes over every position, Empty or not
Frame_every_position(is_maximizing, memory, state_key, best, alpha, beta) ==
    [is_maximizing |-> is_maximizing, memory |-> memory, state_key |-> state_key,
     moves |-> <<0, 1, 2, 3, 4, 5, 6, 7, 8>>, i |-> 1, best |-> best,
     alpha |-> alpha, beta |-> beta, broke |-> FALSE, pc |-> "loop", outcome |-> 0]

\* a call that has reached its for loop; best is the index of its new dict
\* {'move': None, 'value': -inf or inf}
Frame(is_maximizing, memory, state_key, best, alpha, beta) ==
    [is_maximizing |-> is_maximizing, memory |-> memory, state_key |-> state_key,
     moves |-> free_spaces(state_key), i |-> 1, best |-> best,
     alpha |-> alpha, beta |-> beta, broke |-> FALSE, pc |-> "loop", outcome |-> 0]

\* a call from its first line to its for loop: it returns the cached dict
\* (kind "hit") or a new dict for a finished board (kind "terminal"), or goes
\* on to the loop (kind "frame"); the dict made for a call that returns at
\* once goes with it
Enter(finder, board, is_maximizing, player, memory, alpha, beta, O, D) ==
    LET mem == WorksOn(D, memory)
        D1 == OnEntry(D, memory)
        state_key == board.grid
    IN  IF HasKey(D1[mem], state_key)
        THEN [kind |-> "hit", ret |-> Get(D1[mem], state_key), objs |-> O,
              dicts |-> D, frame |-> NoFrame]
        ELSE IF IsTerminal(board)
        THEN [kind |-> "terminal", ret |-> Len(O) + 1,
              objs |-> Append(O, IF finder = "smart_move_finder"
                                 THEN smart_terminal(board, player)
                                 ELSE optimized_terminal(board, player)),
              dicts |-> D, frame |-> NoFrame]
        ELSE [kind |-> "frame", ret |-> 0,
              objs |-> Append(O, [move |-> NoMove,
                                  value |-> IF is_maximizing THEN -Inf ELSE Inf]),
              dicts |-> D1,
              frame |-> Frame(is_maximizing, mem, state_key, Len(O) + 1, alpha, beta)]

\* a cache a caller passes: one entry, the result for player of a board with
\* two Empty cells and O to move
SeedGame == [grid |-> [i \in Positions |->
                          IF i \in {0, 2, 4, 5} THEN "X"
                          ELSE IF i \in {1, 3, 6} THEN "O" ELSE Empty],
             victor |-> None]
SeedEntry(player) ==
    smart_move_finder[[game_state |-> SeedGame, is_maximizing |-> (player = "O"),
                       player |-> player, memory |-> NoMemory]].outcome
SeedDict == {<<SeedGame.grid, 1>>}

\* the mark a frame places: player on its own turns, the opponent on the others
Symbol(frame) == IF frame.is_maximizing THEN trace.player ELSE Other(trace.player)

\* what the same call returns when it is made with no cache
plain(finder, player) ==
    IF finder = "smart_move_finder"
    THEN call_smart_move_finder(TRUE, player).outcome
    ELSE call_optimized_move_finder(TRUE, player).outcome

\* the top-level call returns the dict ret
returning(finder, player, ret, O, tr) ==
    /\ stack' = <<>>
    /\ objs' = <<>>
    /\ dicts' = <<>>
    /\ trace' = [tr EXCEPT !.status = "done"]
    /\ last' = Called(finder, TRUE)
    /\ IF finder = "smart_move_finder"
       THEN /\ smart_ret' = Returned(player, TRUE, O[ret])
            /\ UNCHANGED optimized_ret
       ELSE /\ optimized_ret' = Returned(player, TRUE, O[ret])
            /\ UNCHANGED smart_ret

\* the strategies' call, finder(game, True, symbol), or the same call with a
\* cache that holds an entry
TraceCall(finder, seeded) ==
    /\ trace.status = "idle"
    /\ count_free(game.grid) <= MaxTraceFree
    /\ \E tr \in {[NoTrace EXCEPT !.status = "running", !.finder = finder,
                                  !.player = current_player, !.seeded = seeded,
                                  !.root = game.grid,
                                  !.plain = plain(finder, current_player)]} :
       \E e \in {Enter(finder, game, TRUE, current_player,
                       IF seeded THEN 1 ELSE NoDict, -Inf, Inf,
                       IF seeded THEN <<SeedEntry(current_player)>> ELSE <<>>,
                       IF seeded THEN <<SeedDict>> ELSE <<>>)} :
           IF e.kind = "frame"
           THEN /\ stack' = <<e.frame>>
                /\ objs' = e.objs
                /\ dicts' = e.dicts
                /\ trace' = tr
                /\ UNCHANGED <<last, smart_ret, optimized_ret>>
           ELSE returning(finder, current_player, e.ret, e.objs,
                          [tr EXCEPT !.hit = (e.kind = "hit")])
    /\ UNCHANGED game
    /\ UNCHANGED run_vars

\* "for move in ...: game_state.place_marker(move, ...)" and the recursive
\* call up to its loop
Descend ==
    /\ trace.status = "running"
    /\ stack[Len(stack)].pc = "loop"
    /\ ~stack[Len(stack)].broke
    /\ stack[Len(stack)].i <= Len(stack[Len(stack)].moves)
    /\ \E top \in {stack[Len(stack)]} :
       \E placed \in {place_marker(game, top.moves[top.i], Symbol(top)).game} :
       \E e \in {Enter(trace.finder, placed, ~top.is_maximizing, trace.player,
                       top.memory, top.alpha, top.beta, objs, dicts)} :
           /\ game' = placed
           /\ objs' = e.objs
           /\ dicts' = e.dicts
           /\ stack' = IF e.kind = "frame"
                       THEN Append([stack EXCEPT ![Len(stack)].pc = "wait"], e.frame)
                       ELSE [stack EXCEPT ![Len(stack)].pc = "back",
                                          ![Len(stack)].outcome = e.ret]
           /\ trace' = [trace EXCEPT !.hit = @ \/ (e.kind = "hit"),
                                     !.deepest = max(@, Len(stack))]
    /\ UNCHANGED <<last, smart_ret, optimized_ret>>
    /\ UNCHANGED run_vars

\* the line the loop compares with: "if outcome['value'] > best['value']"
better(finder, is_maximizing, outcome, best) ==
    IF finder = "smart_move_finder"
    THEN smart_better(is_maximizing, outcome, best)
    ELSE optimized_better(is_maximizing, outcome, best)

\* the rest of the loop body once the recursive call has returned: the
\* revert, "outcome['move'] = move", the comparison, and alpha, beta and the
\* break of optimized_move_finder
Resume ==
    /\ trace.status = "running"
    /\ stack[Len(stack)].pc = "back"
    /\ \E top \in {stack[Len(stack)]} :
       \E O \in {[objs EXCEPT ![top.outcome].move = top.moves[top.i]]} :
       \E best \in {IF better(trace.finder, top.is_maximizing, O[top.outcome], O[top.best])
                    THEN top.outcome ELSE top.best} :
       \E alpha \in {IF trace.finder = "optimized_move_finder" /\ top.is_maximizing
                     THEN max(top.alpha, O[best].value) ELSE top.alpha} :
       \E beta \in {IF trace.finder = "optimized_move_finder" /\ ~top.is_maximizing
                    THEN min(top.beta, O[best].value) ELSE top.beta} :
           /\ game' = revert(game, top.moves[top.i])
           /\ objs' = O
           /\ stack' = [stack EXCEPT ![Len(stack)] =
                           [top EXCEPT !.pc = "loop", !.i = top.i + 1, !.best = best,
                                       !.alpha = alpha, !.beta = beta,
                                       !.broke = (trace.finder = "optimized_move_finder"
                                                  /\ prune(alpha, beta)),
                                       !.outcome = 0]]
    /\ UNCHANGED <<dicts, trace, last, smart_ret, optimized_ret>>
    /\ UNCHANGED run_vars

\* the loop has ended: "memory[state_key] = best; return best"; a dict the
\* call made for itself is the newest one, and nothing refers to it once
\* the call has returned
Return ==
    /\ trace.status = "running"
    /\ stack[Len(stack)].pc = "loop"
    /\ stack[Len(stack)].broke \/ stack[Len(stack)].i > Len(stack[Len(stack)].moves)
    /\ \E top \in {stack[Len(stack)]} :
       \E tr \in {[trace EXCEPT !.written = @ \cup {top.state_key},
                                !.twice = @ \/ (top.state_key \in trace.written)]} :
           IF Len(stack) = 1
           THEN returning(trace.finder, trace.player, top.best, objs, tr)
           ELSE /\ stack' = [SubSeq(stack, 1, Len(stack) - 1)
                                EXCEPT ![Len(stack) - 1].pc = "back",
                                       ![Len(stack) - 1].outcome = top.best]
                /\ dicts' = IF stack[Len(stack) - 1].memory = top.memory
                             THEN [dicts EXCEPT ![top.memory] =
                                      Store(@, top.state_key, top.best)]
                             ELSE SubSeq(dicts, 1, top.memory - 1)
                /\ trace' = tr
                /\ UNCHANGED <<objs, last, smart_ret, optimized_ret>>
    /\ UNCHANGED game
    /\ UNCHANGED run_vars

\* legal play up to the board the search is called on
TracePlay(pos) ==
    /\ trace.status = "idle"
    /\ Play(pos)

Finders == {"smart_move_finder", "optimized_move_finder"}

NextTrace ==
    \/ \E pos \in Positions : TracePlay(pos)
    \/ \E finder \in Finders, seeded \in BOOLEAN : TraceCall(finder, seeded)
    \/ Descend
    \/ Resume
    \/ Return

SpecTrace == InitSearch /\ [][NextTrace]_vars

\* the searches as the strategies call them, with no cache
NextPlainTrace ==
    \/ \E pos \in Positions : TracePlay(pos)
    \/ \E finder \in Finders : TraceCall(finder, FALSE)
    \/ Descend
    \/ Resume
    \/ Return

\* a search that has been called goes on to its end: its steps are
\* sequential code
FairSpecTrace ==
    InitSearch /\ [][NextPlainTrace]_vars /\ WF_vars(Descend \/ Resume \/ Return)

\* what the search followed call by call has returned
TracedRet == IF trace.finder = "smart_move_finder" THEN smart_ret ELSE optimized_ret

\* C12, as claimed: in a top-level call made without a cache every recursive
\* call works on the same cache dict, and no board is stored a second time.
C12_OneCache ==
    (trace.status # "idle" /\ ~trace.seeded)
    => /\ \A i, j \in DOMAIN stack : stack[i].memory = stack[j].memory
       /\ ~trace.twice

\* C14: on every board of legal play and on every trial board inside a
\* search, victor is m exactly when some row, column or diagonal is all m.
C14_VictorIffLine ==
    \A m \in Marks : game.victor = m <=> HasLine(game.grid, m)

\* inside a search X has been tried on 4 with 0 and 8 his, no other line:
\* the win found by the diagonal check of an even position
C14_Witness ==
    /\ trace.status = "running"
    /\ stack[Len(stack)].pc = "back"
    /\ stack[Len(stack)].moves[stack[Len(stack)].i] = 4
    /\ game.victor = "X"
    /\ \A line \in Lines : (\A i \in line : game.grid[i] = "X") <=> line = {0, 4, 8}

\* the frames whose trial mark is on the board
InFlight == {j \in DOMAIN stack : stack[j].pc \in {"wait", "back"}}
TrialMove(j) == stack[j].moves[stack[j].i]

\* C17: while a search runs, the board is the root board with the trial marks
\* of the calls in progress and nothing else, one cell per level, the marks
\* alternating from the side to move; when a call is about to place its next
\* candidate the earlier one is cleared and victor is None.
C17_PlaceUndoNesting ==
    trace.status = "running"
    => /\ InFlight = {j \in DOMAIN stack : j < Len(stack) \/ stack[j].pc = "back"}
       /\ \A j \in InFlight :
              /\ trace.root[TrialMove(j)] = Empty
              /\ game.grid[TrialMove(j)] = IF j % 2 = 1 THEN trace.player
                                           ELSE Other(trace.player)
       /\ Cardinality({p \in Positions : game.grid[p] # trace.root[p]})
              = Cardinality(InFlight)
       /\ stack[Len(stack)].pc = "loop" => game.victor = None

\* a call two levels down has tried a candidate, undone it and stands before
\* the next one
C17_Witness ==
    /\ trace.status = "running"
    /\ Len(stack) = 3
    /\ stack[3].pc = "loop"
    /\ stack[3].i = 2
    /\ Len(stack[3].moves) = 2
    /\ Cardinality({p \in Positions : game.grid[p] # trace.root[p]}) = 2

\* C18: every search called on a board of legal play returns, and no call of
\* it is more levels below the top-level call than the root board has Empty
\* cells.
C18_ReturnsWithinDepth ==
    /\ [](trace.deepest <= count_free(trace.root))
    /\ (trace.status = "running") ~> (trace.status = "done")

\* a search on a board with 4 Empty cells has returned after going 4 deep
C18_Witness ==
    /\ trace.status = "done"
    /\ count_free(trace.root) = 4
    /\ trace.deepest = 4
    /\ TracedRet.called

\* C19, as claimed: a search given a cache that holds a correct entry for
\* its player returns the move and the value of the same call with no cache.
C19_CacheTransparent ==
    (trace.status = "done" /\ trace.seeded)
    => /\ TracedRet.move = trace.plain.move
       /\ TracedRet.value = trace.plain.value

\* the free positions where a mark of symbol completes a line
WinningMoves(grid, symbol) ==
    {p \in FreeSet(grid) : HasLine([grid EXCEPT ![p] = symbol], symbol)}
Lowest(S) == CHOOSE p \in S : \A q \in S : p <= q

\* C15: on an unfinished board with k Empty cells where the side to move can
\* complete a line, both searches return the lowest such position, with
\* value k.
C15_FastestWin ==
    \A ret \in {smart_ret, optimized_ret} :
        (ret.called /\ ret.is_maximizing /\ ~IsTerminal(game)
            /\ WinningMoves(game.grid, ret.player) # {})
        => /\ ret.move = Lowest(WinningMoves(game.grid, ret.player))
           /\ ret.value = count_free(game.grid)

\* both searches have answered where the lowest free position does not win
\* and a later one does
C15_Witness ==
    /\ smart_ret.called /\ optimized_ret.called
    /\ ~IsTerminal(game)
    /\ count_free(game.grid) = 5
    /\ WinningMoves(game.grid, smart_ret.player) # {}
    /\ Lowest(WinningMoves(game.grid, smart_ret.player)) > Lowest(FreeSet(game.grid))
    /\ smart_ret.value = 5

\* C16: on an unfinished board both searches return an Empty position of the
\* board, never None and never an occupied one; on a finished board they
\* return the move None.
C16_MoveApplicable ==
    \A ret \in {smart_ret, optimized_ret} :
        ret.called
        => IF IsTerminal(game)
           THEN ret.move = NoMove
           ELSE ret.move \in FreeSet(game.grid)

\* both searches have named a free position that is not the lowest one
C16_Witness ==
    /\ smart_ret.called /\ optimized_ret.called
    /\ ~IsTerminal(game)
    /\ smart_ret.move \in FreeSet(game.grid)
    /\ optimized_ret.move \in FreeSet(game.grid)
    /\ optimized_ret.move # Lowest(FreeSet(game.grid))
    /\ count_free(game.grid) = 7

MarksOf(symbol) == Cardinality({p \in Positions : game.grid[p] = symbol})

\* run_game at any moment: X has placed as many marks as O or one more, the
\* turn is X's when they are level, the loop goes on only on a board with no
\* line, and what it returns is the mark with a line, or None on a full
\* board with no line
C20_State ==
    /\ MarksOf("X") - MarksOf("O") \in {0, 1}
    /\ pc # "raised"
    /\ pc = "loop"
           => /\ current_player = "X" <=> MarksOf("X") = MarksOf("O")
              /\ game.victor = None
              /\ \A m \in Marks : ~HasLine(game.grid, m)
    /\ pc = "done"
           => /\ \A m \in Marks : result = m <=> HasLine(game.grid, m)
              /\ result = None <=> (~has_space(game.grid)
                                    /\ \A m \in Marks : ~HasLine(game.grid, m))
              /\ result = game.victor

\* a step of run_game: nothing is placed once victor is set, a placement
\* puts the mark of the side to move on one Empty cell, and the mark
\* returned is the one whose line the last placement completed
C20_Step ==
    /\ game.victor # None => game' = game
    /\ game'.grid # game.grid
           => \E p \in Positions :
                  /\ game.grid[p] = Empty
                  /\ game'.grid = [game.grid EXCEPT ![p] = current_player]
    /\ (pc' = "done" /\ result' \in Marks)
           => /\ result' = current_player
              /\ ~HasLine(game.grid, result')
              /\ HasLine(game'.grid, result')

\* C20: run_game stops at the first win and reports it: X moves first, the
\* marks alternate, at most 9 are placed, none after victor is set, the mark
\* m is returned exactly when the last placement completed a line of m, and
\* None exactly when the board is full with no line.
C20_StopsAtFirstWin == []C20_State /\ [][C20_Step]_vars

\* X has won with the ninth mark
C20_Witness ==
    /\ pc = "done"
    /\ result = "X"
    /\ game.victor = "X"
    /\ Placed = 9
    /\ x_strategy = "human_strategy"
====
